---- MODULE Spec2Model ----
(***************************************************************************)
(* Model of venice_image_gen.py: the aspect-ratio resolver                 *)
(* (parse_aspect_ratio), the request builder (generate_image), the file    *)
(* persister (save_image) and the CLI driver (main).                       *)
(*                                                                         *)
(* Python strings that the program inspects character by character (the    *)
(* --ar token, file paths) are sequences of one-character strings.         *)
(* Optional values (argparse attributes, kwargs) are None == <<>> or       *)
(* Some(v) == <<v>>.                                                        *)
(***************************************************************************)
EXTENDS Integers, Sequences, FiniteSets, TLC

VARIABLES pc, api_key, args, fs, fs0, http, result, opened,
          exit_code, stdout, stderr, call, ret

vars == <<pc, api_key, args, fs, fs0, http, result, opened,
          exit_code, stdout, stderr, call, ret>>

----------------------------------------------------------------------------
(* Bounds of the model *)

\* longest free-form --ar token enumerated over TokAlphabet
MaxTokLen == 3
\* ratio components W and H of the "W:H" tokens range over -1..MaxRatio
MaxRatio == 12
\* number of optional generation flags one command line carries
MaxOptFlags == 1
\* highest suffix "_k" of the files that exist before save_image is called
MaxSuffix == 2

----------------------------------------------------------------------------
(* Optional values and Python truthiness *)

None == <<>>
Some(v) == <<v>>

\* "if x:" for an Optional[int] / Optional[float]
TruthyNum(o) == o # None /\ o[1] # 0
\* "if x:" for an Optional[str] held as a TLA+ string
TruthyStr(o) == o # None /\ o[1] # ""
\* "if x:" for an Optional[str] held as a sequence of characters
TruthySeq(o) == o # None /\ o[1] # <<>>

----------------------------------------------------------------------------
(* Characters and strings *)

Digits == <<"0", "1", "2", "3", "4", "5", "6", "7", "8", "9">>
Uppers == <<"A", "B", "C", "D", "E", "F", "G", "H", "I", "J", "K", "L", "M",
            "N", "O", "P", "Q", "R", "S", "T", "U", "V", "W", "X", "Y", "Z">>
Lowers == <<"a", "b", "c", "d", "e", "f", "g", "h", "i", "j", "k", "l", "m",
            "n", "o", "p", "q", "r", "s", "t", "u", "v", "w", "x", "y", "z">>

IsDigit(c) == \E i \in 1..10 : Digits[i] = c
DigitVal(c) == (CHOOSE i \in 1..10 : Digits[i] = c) - 1

\* str.lower() on one character
LowerChar(c) ==
  IF \E i \in 1..26 : Uppers[i] = c
  THEN Lowers[CHOOSE i \in 1..26 : Uppers[i] = c]
  ELSE c

\* str.lower()
lower(s) == [i \in 1..Len(s) |-> LowerChar(s[i])]

\* str(n) for an integer n
RECURSIVE NatStr(_)
NatStr(n) ==
  IF n < 10 THEN <<Digits[n + 1]>>
  ELSE Append(NatStr(n \div 10), Digits[(n % 10) + 1])

IntStr(n) == IF n < 0 THEN <<"-">> \o NatStr(0 - n) ELSE NatStr(n)

\* index of the first / last occurrence of character c in s, 0 when absent
FirstIndex(s, c) ==
  IF \E i \in 1..Len(s) : s[i] = c
  THEN CHOOSE i \in 1..Len(s) : s[i] = c /\ \A j \in 1..(i - 1) : s[j] # c
  ELSE 0

LastIndex(s, c) ==
  IF \E i \in 1..Len(s) : s[i] = c
  THEN CHOOSE i \in 1..Len(s) : s[i] = c /\ \A j \in (i + 1)..Len(s) : s[j] # c
  ELSE 0

\* s.split(c): the pieces of s between the occurrences of c
RECURSIVE split(_, _)
split(s, c) ==
  LET i == FirstIndex(s, c) IN
  IF i = 0 THEN <<s>>
  ELSE <<SubSeq(s, 1, i - 1)>> \o split(SubSeq(s, i + 1, Len(s)), c)

\* all sequences over alphabet A of length at most n
RECURSIVE SeqsUpTo(_, _)
SeqsUpTo(A, n) ==
  IF n = 0 THEN {<<>>}
  ELSE LET shorter == SeqsUpTo(A, n - 1) IN
       shorter \cup {Append(s, c) : s \in shorter, c \in A}

----------------------------------------------------------------------------
(* float(): the values a ratio component can take *)

Fin(n) == [kind |-> "fin", v |-> n]
Inf(sign) == [kind |-> "inf", v |-> sign]
NaN == [kind |-> "nan", v |-> 0]
FloatValueError == [kind |-> "ValueError", v |-> 0]

\* value of a non-empty string of decimal digits
RECURSIVE DigitsVal(_)
DigitsVal(s) ==
  IF Len(s) = 0 THEN 0
  ELSE 10 * DigitsVal(SubSeq(s, 1, Len(s) - 1)) + DigitVal(s[Len(s)])

\* float() of an unsigned literal: decimal digits, "inf" or "nan"
UnsignedFloat(s) ==
  IF Len(s) > 0 /\ \A i \in 1..Len(s) : IsDigit(s[i]) THEN Fin(DigitsVal(s))
  ELSE IF lower(s) = <<"i", "n", "f">> THEN Inf(1)
  ELSE IF lower(s) = <<"n", "a", "n">> THEN NaN
  ELSE FloatValueError

Negate(x) ==
  IF x.kind \in {"fin", "inf"} THEN [x EXCEPT !.v = 0 - x.v] ELSE x

\* float(s) for s over digits, letters, "-", "+" and ":" (no ".", exponent,
\* "_" or white space occurs in the tokens of this model)
float(s) ==
  IF Len(s) > 0 /\ s[1] = "-" THEN Negate(UnsignedFloat(Tail(s)))
  ELSE IF Len(s) > 0 /\ s[1] = "+" THEN UnsignedFloat(Tail(s))
  ELSE UnsignedFloat(s)

\* a >= b on floats
FloatGE(a, b) ==
  CASE a.kind = "nan" \/ b.kind = "nan" -> FALSE
    [] a.kind = "inf" /\ a.v = 1 -> TRUE
    [] a.kind = "inf" /\ a.v = -1 -> b.kind = "inf" /\ b.v = -1
    [] a.kind = "fin" /\ b.kind = "inf" -> b.v = -1
    [] OTHER -> a.v >= b.v

\* the quotient rounded to the nearest integer instead of truncated
TruncDiv_Rounded(a, b) ==
  LET abs(x) == IF x < 0 THEN 0 - x ELSE x
      q == (2 * abs(a) + abs(b)) \div (2 * abs(b))
  IN IF (a < 0) # (b < 0) THEN 0 - q ELSE q

\* integer quotient truncated toward zero, as int() of a float quotient
TruncDiv(a, b) ==
  LET abs(x) == IF x < 0 THEN 0 - x ELSE x
      q == abs(a) \div abs(b)
  IN IF (a < 0) # (b < 0) THEN 0 - q ELSE q

IntOk(n) == [tag |-> "ok", v |-> n]
IntErr(e) == [tag |-> e, v |-> 0]

----------------------------------------------------------------------------
(* Aspect-ratio resolver *)

\* VeniceImageGenerator.ASPECT_RATIOS
ASPECT_RATIOS == {
  << <<"s", "q", "u", "a", "r", "e">>, <<1024, 1024>> >>,
  << <<"1", ":", "1">>, <<1024, 1024>> >>,
  << <<"l", "a", "n", "d", "s", "c", "a", "p", "e">>, <<1264, 848>> >>,
  << <<"3", ":", "2">>, <<1264, 848>> >>,
  << <<"c", "i", "n", "e", "m", "a">>, <<1280, 720>> >>,
  << <<"1", "6", ":", "9">>, <<1280, 720>> >>,
  << <<"t", "a", "l", "l">>, <<720, 1280>> >>,
  << <<"9", ":", "1", "6">>, <<720, 1280>> >>,
  << <<"p", "o", "r", "t", "r", "a", "i", "t">>, <<848, 1264>> >>,
  << <<"2", ":", "3">>, <<848, 1264>> >>,
  << <<"i", "n", "s", "t", "a", "g", "r", "a", "m">>, <<1011, 1264>> >>,
  << <<"4", ":", "5">>, <<1011, 1264>> >> }

\* "key in ASPECT_RATIOS" and "ASPECT_RATIOS[key]"
InPresets(key) == \E e \in ASPECT_RATIOS : e[1] = key
Preset(key) == (CHOOSE e \in ASPECT_RATIOS : e[1] = key)[2]

base_size == 1024

\* int(base_size * num / den) on floats num and den
ScaledInt(num, den) ==
  CASE den.kind = "fin" /\ den.v = 0 -> IntErr("ZeroDivisionError")
    [] num.kind = "nan" \/ den.kind = "nan" -> IntErr("ValueError")
    [] num.kind = "inf" /\ den.kind = "inf" -> IntErr("ValueError")
    [] num.kind = "inf" -> IntErr("OverflowError")
    [] den.kind = "inf" -> IntOk(0)
    [] OTHER -> IntOk(TruncDiv(base_size * num.v, den.v))

\* ((n + 7) // 8) * 8
CeilTo8(n) == ((n + 7) \div 8) * 8

ArOk(w, h) == [tag |-> "ok", width |-> w, height |-> h]
ArRaise(e) == [tag |-> e, width |-> 0, height |-> 0]

\* the try block of parse_aspect_ratio, for a token that contains ":"
CustomRatio(ar_string) ==
  LET parts == split(ar_string, ":") IN
  IF Len(parts) # 2 THEN ArRaise("ValueError")
  ELSE
    LET w_ratio == float(parts[1])
        h_ratio == float(parts[2])
    IN
    IF w_ratio.kind = "ValueError" \/ h_ratio.kind = "ValueError"
    THEN ArRaise("ValueError")
    ELSE IF FloatGE(w_ratio, h_ratio)
    THEN LET height == ScaledInt(h_ratio, w_ratio) IN
         IF height.tag # "ok" THEN ArRaise(height.tag)
         ELSE ArOk(CeilTo8(base_size), CeilTo8(height.v))
    ELSE LET width == ScaledInt(w_ratio, h_ratio) IN
         IF width.tag # "ok" THEN ArRaise(width.tag)
         ELSE ArOk(CeilTo8(width.v), CeilTo8(base_size))

\* parse_aspect_ratio falling back to the square preset instead of raising
parse_aspect_ratio_FallsBack(ar_string) ==
  LET ar_lower == lower(ar_string) IN
  IF InPresets(ar_lower) THEN ArOk(Preset(ar_lower)[1], Preset(ar_lower)[2])
  ELSE IF FirstIndex(ar_string, ":") # 0
  THEN LET r == CustomRatio(ar_string) IN
       IF r.tag = "ValueError" THEN ArOk(1024, 1024) ELSE r
  ELSE ArOk(1024, 1024)

\* parse_aspect_ratio(ar_string): [tag |-> "ok", width, height] when it
\* returns, [tag |-> <exception>] when it raises.  A ValueError inside the
\* try block is swallowed and re-raised as "Invalid aspect ratio"; any other
\* exception escapes as it is.
parse_aspect_ratio(ar_string) ==
  LET ar_lower == lower(ar_string) IN
  IF InPresets(ar_lower) THEN ArOk(Preset(ar_lower)[1], Preset(ar_lower)[2])
  ELSE IF FirstIndex(ar_string, ":") # 0
  THEN LET r == CustomRatio(ar_string) IN
       IF r.tag = "ValueError" THEN ArRaise("ValueError") ELSE r
  ELSE ArRaise("ValueError")

----------------------------------------------------------------------------
(* Tokens the resolver is applied to *)

ExtremeRatios == {1024, 1025, 2000}
RatioVals == {-1, 0} \cup (1..MaxRatio) \cup ExtremeRatios

\* the token "W:H"
RatioToken(W, H) == IntStr(W) \o <<":">> \o IntStr(H)

TokAlphabet == {"1", "2", "0", ":", "-", "x"}

NamedTokens == {
  <<"s", "q", "u", "a", "r", "e">>, <<"S", "q", "u", "a", "r", "e">>,
  <<"C", "I", "N", "E", "M", "A">>, <<"t", "a", "l", "l">>,
  <<"1", "6", ":", "9">>, <<"9", ":", "1", "6">>,
  <<"w", "i", "d", "e">>, <<"4", "x", "3">>,
  <<"i", "n", "f", ":", "1">>, <<"1", ":", "i", "n", "f">>,
  <<"-", "i", "n", "f", ":", "1">>, <<"i", "n", "f", ":", "i", "n", "f">>,
  <<"n", "a", "n", ":", "1">>, <<"1", ":", "N", "a", "N">>,
  <<"+", "4", ":", "3">>, <<"4", ":", "3", ":", "2">> }

Tokens ==
  SeqsUpTo(TokAlphabet, MaxTokLen)
    \cup {RatioToken(W, H) : W \in RatioVals, H \in RatioVals}
    \cup NamedTokens

----------------------------------------------------------------------------
(* Specification of the resolver alone: one call on an arbitrary token *)

Idle == [fn |-> "none"]

InitAR ==
  /\ pc = "call"
  /\ call \in {[fn |-> "parse_aspect_ratio", ar_string |-> t] : t \in Tokens}
  /\ ret = None
  /\ api_key = None /\ args = None /\ fs = <<>> /\ fs0 = <<>>
  /\ http = <<>> /\ result = None /\ opened = None
  /\ exit_code = None /\ stdout = <<>> /\ stderr = <<>>

ParseAspectRatio ==
  /\ pc = "call"
  /\ call.fn = "parse_aspect_ratio"
  /\ ret' = Some(parse_aspect_ratio(call.ar_string))
  /\ pc' = "returned"
  /\ UNCHANGED <<api_key, args, fs, fs0, http, result, opened,
                 exit_code, stdout, stderr, call>>

NextAR == ParseAspectRatio

SpecAR == InitAR /\ [][NextAR]_vars

\* the call has returned or raised
ArDone == pc = "returned" /\ call.fn = "parse_aspect_ratio"
ArRet == ret[1]

----------------------------------------------------------------------------
(* Properties of the resolver (checked under SpecAR) *)

\* the token of the call is the custom token "W:H" (not a preset key)
IsCustom(W, H) ==
  /\ call.ar_string = RatioToken(W, H)
  /\ ~InPresets(lower(call.ar_string))

PositiveRatios == {n \in RatioVals : n > 0}

\* the smallest multiple of 8 that is >= n
LeastMultipleOf8AtLeast(n) == CHOOSE m \in n..(n + 7) : m % 8 = 0

\* round(a / b) for positive integers a and b (halves go to the even side)
RoundDiv(a, b) ==
  LET q == a \div b
      r == a % b
  IN IF 2 * r > b \/ (2 * r = b /\ q % 2 = 1) THEN q + 1 ELSE q

\* floor(a / b) for positive integers a and b
FloorDiv(a, b) == a \div b

\* C7 as stated: for a custom token "W:H" with positive W and H the longer
\* side is 1024 and the other side is the smallest multiple of 8 that is
\* >= round(1024 * shorter / longer).
C7_RoundedThenCeil ==
  ArDone =>
    \A W \in PositiveRatios, H \in PositiveRatios :
      IsCustom(W, H) =>
        IF W >= H
        THEN ArRet = ArOk(1024, LeastMultipleOf8AtLeast(RoundDiv(1024 * H, W)))
        ELSE ArRet = ArOk(LeastMultipleOf8AtLeast(RoundDiv(1024 * W, H)), 1024)

\* C7 amended: for a custom token "W:H" with positive W and H the longer
\* side is 1024 and the other side is the smallest multiple of 8 that is
\* >= 1024 * shorter / longer truncated to an integer (not rounded).
C7_TruncatedThenCeil ==
  ArDone =>
    \A W \in PositiveRatios, H \in PositiveRatios :
      IsCustom(W, H) =>
        IF W >= H
        THEN ArRet = ArOk(1024, LeastMultipleOf8AtLeast(FloorDiv(1024 * H, W)))
        ELSE ArRet = ArOk(LeastMultipleOf8AtLeast(FloorDiv(1024 * W, H)), 1024)

\* "9:5" has been resolved: 1024 * 5 / 9 = 568.88..., truncated to 568
C7_Witness ==
  /\ ArDone
  /\ IsCustom(9, 5)
  /\ ArRet = ArOk(1024, 568)

\* the text s is an optionally signed decimal literal or infinity
IsNumberText(s) ==
  LET body == IF Len(s) > 0 /\ s[1] \in {"-", "+"} THEN Tail(s) ELSE s IN
  \/ Len(body) > 0 /\ \A i \in 1..Len(body) : body[i] \in {"0", "1", "2", "3", "4", "5", "6", "7", "8", "9"}
  \/ lower(body) = <<"i", "n", "f">>

\* number of ":" in s
Colons(s) == Cardinality({i \in 1..Len(s) : s[i] = ":"})

\* the pieces of s around its single ":"
Before(s) == SubSeq(s, 1, FirstIndex(s, ":") - 1)
After(s) == SubSeq(s, FirstIndex(s, ":") + 1, Len(s))

\* the token is malformed: no ":", more than one ":", or a component that is
\* not a number
Malformed(s) ==
  \/ Colons(s) = 0
  \/ Colons(s) > 1
  \/ ~IsNumberText(Before(s))
  \/ ~IsNumberText(After(s))

\* C9: for every token that is not a preset key and has no ":", or does not
\* split on ":" into exactly two components, or has a non-numeric component,
\* parse_aspect_ratio raises the ValueError "Invalid aspect ratio" and returns
\* no dimensions.
C9_MalformedTokenRaisesValueError ==
  ArDone =>
    (~InPresets(lower(call.ar_string)) /\ Malformed(call.ar_string)
       => ArRet = ArRaise("ValueError"))

\* a token with a non-numeric component has been rejected
C9_Witness ==
  /\ ArDone
  /\ call.ar_string = <<"x", ":", "1">>
  /\ ArRet.tag = "ValueError"

\* C10: for every custom token "W:H" with positive W and H both returned
\* dimensions are >= 1, however extreme the ratio.
C10_DimensionsPositive ==
  ArDone =>
    \A W \in PositiveRatios, H \in PositiveRatios :
      IsCustom(W, H) =>
        ArRet.tag = "ok" /\ ArRet.width >= 1 /\ ArRet.height >= 1

----------------------------------------------------------------------------
(* Request builder and API client *)

\* optional_params of generate_image
optional_params ==
  <<"negative_prompt", "width", "height", "steps", "cfg_scale", "seed",
    "style_preset">>

\* kwargs.get(key, default): kwargs maps each keyword that was passed to its
\* value, which is None or Some(v)
KwGet(kwargs, key, default) ==
  IF key \in DOMAIN kwargs THEN kwargs[key] ELSE Some(default)

\* the payload with every optional parameter of kwargs, None included
BuildPayload_SendsNone(prompt, model, kwargs) ==
  LET sent == {i \in 1..Len(optional_params) : optional_params[i] \in DOMAIN kwargs}
      fixed == [k \in {"model", "prompt", "format", "hide_watermark",
                       "safe_mode", "return_binary"} |->
                 CASE k = "model" -> Some(model)
                   [] k = "prompt" -> Some(prompt)
                   [] k = "format" -> KwGet(kwargs, "format", <<"j", "p", "e", "g">>)
                   [] k = "hide_watermark" -> Some(TRUE)
                   [] k = "safe_mode" -> KwGet(kwargs, "safe_mode", FALSE)
                   [] k = "return_binary" -> Some(FALSE)]
      optional == [k \in {optional_params[i] : i \in sent} |-> kwargs[k]]
  IN fixed @@ optional

\* the payload generate_image builds: the fixed keys, then every optional
\* parameter that is in kwargs with a value that is not None.  A payload maps
\* each key it contains to None (JSON null) or Some(v).
BuildPayload(prompt, model, kwargs) ==
  LET sent == {i \in 1..Len(optional_params) :
                 /\ optional_params[i] \in DOMAIN kwargs
                 /\ kwargs[optional_params[i]] # None}
      fixed == [k \in {"model", "prompt", "format", "hide_watermark",
                       "safe_mode", "return_binary"} |->
                 CASE k = "model" -> Some(model)
                   [] k = "prompt" -> Some(prompt)
                   [] k = "format" -> KwGet(kwargs, "format", <<"j", "p", "e", "g">>)
                   [] k = "hide_watermark" -> Some(TRUE)
                   [] k = "safe_mode" -> KwGet(kwargs, "safe_mode", FALSE)
                   [] k = "return_binary" -> Some(FALSE)]
      optional == [k \in {optional_params[i] : i \in sent} |-> kwargs[k]]
  IN fixed @@ optional

\* JSON values of the response whose type the program depends on
JNum(n) == [type |-> "number", num |-> n, text |-> ""]
JStr(t) == [type |-> "string", num |-> 0, text |-> t]

\* the base64 texts a response carries and what base64.b64decode makes of
\* them: "aW1n" decodes to the bytes "img", "aW1" has incorrect padding
B64Texts == {"aW1n", "aW1"}
b64decode(text) ==
  IF text = "aW1n" THEN [tag |-> "ok", bytes |-> "img"]
  ELSE [tag |-> "binascii.Error", bytes |-> ""]

\* bodies of a 2xx answer to POST /image/generate
Responses ==
  [images : {<<>>} \cup {<<t>> : t \in B64Texts},
   id : {None, Some(<<"g">>)},
   timing : {None, Some([total |-> JNum(1500)]), Some([total |-> JStr("fast")])}]

Get(url) == [method |-> "GET", url |-> url, json |-> None]
Post(url, payload) == [method |-> "POST", url |-> url, json |-> Some(payload)]

\* sys.exit(code)
Exit(code) == exit_code' = Some(code) /\ pc' = "exited"

\* generate_image(prompt, model, **kwargs), resuming the caller at retpc.
\* raise_for_status only raises for a response whose truth value is False, so
\* the "API Error" / "Response" lines of the except block are never printed.
GenerateImageCall(prompt, model, kwargs, retpc) ==
  /\ http' = Append(http, Post("/image/generate",
                               BuildPayload(prompt, model, kwargs)))
  /\ \/ /\ \E body \in Responses : ret' = Some(body)
        /\ pc' = retpc
        /\ UNCHANGED <<stderr, exit_code>>
     \/ /\ stderr' = Append(stderr, "Error generating image")
        /\ Exit(1)
        /\ UNCHANGED ret

\* keyword arguments a caller of generate_image may pass: each optional
\* parameter absent, None or a value
KwValues(k) ==
  CASE k = "negative_prompt" -> {None, Some("blur")}
    [] k = "width" -> {None, Some(512)}
    [] k = "height" -> {None, Some(768)}
    [] k = "steps" -> {None, Some(30)}
    [] k = "cfg_scale" -> {None, Some(7)}
    [] k = "seed" -> {None, Some(0)}
    [] k = "style_preset" -> {None, Some("anime")}
    [] k = "format" -> {Some(<<"p", "n", "g">>)}
    [] k = "safe_mode" -> {Some(TRUE)}

KwKeys ==
  {optional_params[i] : i \in 1..Len(optional_params)} \cup {"format", "safe_mode"}

RECURSIVE AllKwargs(_)
AllKwargs(keys) ==
  IF keys = {} THEN {<<>>}
  ELSE LET k == CHOOSE x \in keys : TRUE
           rest == AllKwargs(keys \ {k})
       IN rest \cup {(k :> v) @@ f : f \in rest, v \in KwValues(k)}

(* Specification of the request builder alone: one call of generate_image *)

InitGen ==
  /\ pc = "call"
  /\ call \in {[fn |-> "generate_image", prompt |-> "a cat",
                model |-> "venice-sd35", kwargs |-> kw] : kw \in AllKwargs(KwKeys)}
  /\ ret = None
  /\ api_key = Some("key") /\ args = None /\ fs = <<>> /\ fs0 = <<>>
  /\ http = <<>> /\ result = None /\ opened = None
  /\ exit_code = None /\ stdout = <<>> /\ stderr = <<>>

GenerateImage ==
  /\ pc = "call"
  /\ call.fn = "generate_image"
  /\ GenerateImageCall(call.prompt, call.model, call.kwargs, "returned")
  /\ UNCHANGED <<api_key, args, fs, fs0, result, opened, stdout, call>>

NextGen == GenerateImage

SpecGen == InitGen /\ [][NextGen]_vars

\* C5: every payload generate_image sends has hide_watermark = true and
\* return_binary = false, and holds an optional key only when the caller
\* passed a value other than None for it; no key of the payload is null.
C5_OptionalFieldsOnlyWhenSupplied ==
  \A i \in 1..Len(http) :
    http[i].method = "POST" =>
      LET payload == http[i].json[1] IN
      /\ payload["hide_watermark"] = Some(TRUE)
      /\ payload["return_binary"] = Some(FALSE)
      /\ \A j \in 1..Len(optional_params) :
           LET k == optional_params[j] IN
           k \in DOMAIN payload
             => /\ call.fn = "generate_image"
                /\ k \in DOMAIN call.kwargs
                /\ call.kwargs[k] # None
                /\ payload[k] = call.kwargs[k]

\* a call that passed seed = 0, width = None and no height has sent a payload
\* with the seed and without width and height
C5_Witness ==
  /\ Len(http) = 1
  /\ call.fn = "generate_image"
  /\ "seed" \in DOMAIN call.kwargs /\ call.kwargs["seed"] = Some(0)
  /\ "width" \in DOMAIN call.kwargs /\ call.kwargs["width"] = None
  /\ "height" \notin DOMAIN call.kwargs
  /\ "seed" \in DOMAIN http[1].json[1]
  /\ "width" \notin DOMAIN http[1].json[1]
  /\ "height" \notin DOMAIN http[1].json[1]

----------------------------------------------------------------------------
(* File persister *)

\* Path(p).name: the last component of p
PathName(p) == SubSeq(p, LastIndex(p, "/") + 1, Len(p))

\* position of the dot that starts the suffix of a file name, 0 when the name
\* has no suffix (a leading or a trailing dot starts none)
SuffixDot(name) ==
  LET i == LastIndex(name, ".") IN
  IF 1 < i /\ i < Len(name) THEN i ELSE 0

\* Path(p).suffix and Path(p).stem
PathSuffix(p) ==
  LET name == PathName(p) IN
  IF SuffixDot(name) = 0 THEN <<>>
  ELSE SubSeq(name, SuffixDot(name), Len(name))

PathStem(p) ==
  LET name == PathName(p) IN
  IF SuffixDot(name) = 0 THEN name
  ELSE SubSeq(name, 1, SuffixDot(name) - 1)

\* f"{name_part}_{counter}{ext_part}"
SuffixedName(original_filename, counter) ==
  PathStem(original_filename) \o <<"_">> \o NatStr(counter)
    \o PathSuffix(original_filename)

\* the while loop of save_image: the first of filename, then the suffixed
\* names for counter, counter + 1, ... that is not in existing
RECURSIVE FreeName(_, _, _, _)
FreeName(existing, original_filename, filename, counter) ==
  IF filename \in existing
  THEN FreeName(existing, original_filename,
                SuffixedName(original_filename, counter), counter + 1)
  ELSE filename

\* the candidate without any existence check
ResolveFilename_NoCheck(existing, candidate) == candidate

\* the file name save_image settles on for a candidate
ResolveFilename(existing, candidate) ==
  FreeName(existing, candidate, candidate, 1)

\* "filename = output_path if output_path else f'{image_id}.{format_ext}'"
Candidate(output_path, image_id, format_ext) ==
  IF TruthySeq(output_path) THEN output_path[1]
  ELSE image_id \o <<".">> \o format_ext

\* what a failed f.write may leave in the file that open() created
PartialBytes == {"", "im"}

\* save_image(base64_data, output_path, image_id, format_ext), resuming the
\* caller at retpc.  fs maps every existing path to its content.  open() and
\* f.write() may fail (permissions, full disk); every exception of the try
\* block ends in sys.exit(1).
SaveImageCall(base64_data, output_path, image_id, format_ext, retpc) ==
  LET filename == ResolveFilename(DOMAIN fs,
                                  Candidate(output_path, image_id, format_ext))
      image_data == b64decode(base64_data)
      SaveError == /\ stderr' = Append(stderr, "Error saving image")
                   /\ Exit(1)
                   /\ UNCHANGED ret
  IN
  \/ /\ image_data.tag # "ok"
     /\ SaveError
     /\ UNCHANGED <<fs, opened>>
  \/ /\ image_data.tag = "ok"
     /\ opened' = Some(filename)
     /\ \/ /\ SaveError
           /\ UNCHANGED fs
        \/ /\ \E partial \in PartialBytes :
                fs' = (filename :> partial) @@ fs
           /\ SaveError
        \/ /\ fs' = (filename :> image_data.bytes) @@ fs
           /\ ret' = Some(filename)
           /\ pc' = retpc
           /\ UNCHANGED <<stderr, exit_code>>

\* names of files
P_a == <<"a", ".", "p">>
P_da == <<"d", "/", "a", ".", "p">>
P_g == <<"g", ".", "j", "p", "e", "g">>
P_default == <<"g", "e", "n", "e", "r", "a", "t", "e", "d", "_", "i", "m", "a", "g", "e",
               ".", "j", "p", "e", "g">>
FMT_jpeg == <<"j", "p", "e", "g">>

\* p with "_k" inserted before its extension, in the directory of p
Sibling(p, k) ==
  SubSeq(p, 1, LastIndex(p, "/")) \o SuffixedName(p, k)

\* the files that may exist before the call: each base name and its
\* siblings with suffix _1 .. _MaxSuffix, all with content "old"
BasePaths == {P_a, P_da, P_g}
PathUniverse == BasePaths \cup {Sibling(p, k) : p \in BasePaths, k \in 1..MaxSuffix}
FileSystems == {[p \in D |-> "old"] : D \in SUBSET PathUniverse}

(* Specification of the file persister alone: one call of save_image *)

InitSave ==
  /\ pc = "call"
  /\ call \in [fn : {"save_image"}, base64_data : B64Texts,
               output_path : {None, Some(<<>>), Some(P_a), Some(P_da)},
               image_id : {<<"g">>}, format_ext : {FMT_jpeg}]
  /\ fs \in FileSystems
  /\ fs0 = fs
  /\ ret = None /\ opened = None
  /\ api_key = Some("key") /\ args = None
  /\ http = <<>> /\ result = None
  /\ exit_code = None /\ stdout = <<>> /\ stderr = <<>>

SaveImage ==
  /\ pc = "call"
  /\ call.fn = "save_image"
  /\ SaveImageCall(call.base64_data, call.output_path, call.image_id,
                   call.format_ext, "returned")
  /\ UNCHANGED <<api_key, args, fs0, http, result, stdout, call>>

NextSave == SaveImage

SpecSave == InitSave /\ [][NextSave]_vars

\* the candidate path of the call in progress
SaveCandidate == Candidate(call.output_path, call.image_id, call.format_ext)
SaveReturned == pc = "returned" /\ call.fn = "save_image"

\* C1: save_image never overwrites: the path it opens for writing did not
\* exist before the call, the path it returns is the path it opened, and every
\* file that existed before the call still has its content.
C1_NeverOverwrites ==
  call.fn = "save_image" =>
    /\ opened # None => opened[1] \notin DOMAIN fs0
    /\ SaveReturned => opened = ret /\ ret[1] \in DOMAIN fs
    /\ \A p \in DOMAIN fs0 : p \in DOMAIN fs /\ fs[p] = fs0[p]

\* a.p and a_1.p existed, the image went to a_2.p
C1_Witness ==
  /\ SaveReturned
  /\ SaveCandidate = P_a
  /\ {P_a, Sibling(P_a, 1)} \subseteq DOMAIN fs0
  /\ ret = Some(Sibling(P_a, 2))
  /\ fs[Sibling(P_a, 2)] = "img"

\* C8: a free candidate is written and returned as it is; a candidate that
\* exists is written and returned with "_k" inserted before its extension, in
\* the same directory, for the least k >= 1 whose path does not exist.
C8_LeastFreeSibling ==
  SaveReturned =>
    IF SaveCandidate \notin DOMAIN fs0 THEN ret = Some(SaveCandidate)
    ELSE \E k \in 1..(MaxSuffix + 1) :
           /\ ret = Some(Sibling(SaveCandidate, k))
           /\ Sibling(SaveCandidate, k) \notin DOMAIN fs0
           /\ \A j \in 1..(k - 1) : Sibling(SaveCandidate, j) \in DOMAIN fs0

----------------------------------------------------------------------------
(* CLI driver *)

T_square == <<"s", "q", "u", "a", "r", "e">>

\* values of the optional generation flags
FlagValues(k) ==
  CASE k = "negative_prompt" -> {Some("blur")}
    [] k = "steps" -> {Some(0), Some(30)}
    [] k = "cfg_scale" -> {Some(7)}
    [] k = "seed" -> {Some(0), Some(42)}
    [] k = "style_preset" -> {Some("anime")}

OptFlags == {"negative_prompt", "steps", "cfg_scale", "seed", "style_preset"}

\* the optional generation flags of one command line: at most MaxOptFlags of
\* them are given, the others are None
OptFlagSets ==
  {[k \in OptFlags |-> IF k \in given THEN FlagValues(k) ELSE {None}] :
     given \in {g \in SUBSET OptFlags : Cardinality(g) <= MaxOptFlags}}

RECURSIVE Assignments(_, _)
Assignments(keys, choices) ==
  IF keys = {} THEN {<<>>}
  ELSE LET k == CHOOSE x \in keys : TRUE IN
       {(k :> v) @@ f : f \in Assignments(keys \ {k}, choices), v \in choices[k]}

\* the namespaces parser.parse_args() can return (ArgSpace); --verbose is
\* only enumerated together with --list-models, the one place it is read
Namespaces ==
  {[list_models |-> lm, verbose |-> vb, prompt |-> pr, model |-> "venice-sd35",
    width |-> w, height |-> h, aspect_ratio |-> ar, format |-> FMT_jpeg,
    output |-> out, safe_mode |-> FALSE, opt |-> o] :
     lm \in BOOLEAN, vb \in BOOLEAN,
     pr \in {None, Some(""), Some("a cat")},
     w \in {None, Some(0), Some(512), Some(-8)},
     h \in {None, Some(0), Some(512)},
     ar \in {None, Some(T_square), Some(RatioToken(9, 5)),
             Some(RatioToken(1025, 1)), Some(RatioToken(0, 0)),
             Some(<<"4", "x", "3">>)},
     out \in {None, Some(P_a)},
     o \in UNION {Assignments(OptFlags, c) : c \in OptFlagSets}}

ArgSpace == {a \in Namespaces : a.verbose => a.list_models}

\* the files that may exist when main starts
MainFileSystems ==
  {[p \in D |-> "old"] :
     D \in {{}, {P_a}, {P_a, Sibling(P_a, 1)}, {P_g, P_default}}}

Line(text) == [line |-> text, path |-> <<>>]
SavedLine(filename) == [line |-> "Image saved as", path |-> filename]

\* parser.error with the exit status of the program's own sys.exit(1) calls
ParserError_Exit1(message) ==
  /\ stderr' = Append(stderr, message)
  /\ Exit(1)

\* parser.error(message): argparse prints the usage and the message to
\* standard error and exits with status 2
ParserError(message) ==
  /\ stderr' = Append(stderr, message)
  /\ Exit(2)

\* an exception nobody catches: the interpreter prints the traceback and
\* exits with status 1
Uncaught(exception) ==
  /\ stderr' = Append(stderr, exception)
  /\ Exit(1)

\* main returns: the process exits with status 0
Return == Exit(0)

\* gen_params of main for the namespace a and the final width and height
GenParams(a, width, height) ==
  LET given == {k \in {"negative_prompt", "style_preset"} : TruthyStr(a.opt[k])}
               \cup {k \in {"steps", "cfg_scale", "seed"} : TruthyNum(a.opt[k])}
      dims == (IF TruthyNum(width) THEN {"width"} ELSE {})
              \cup (IF TruthyNum(height) THEN {"height"} ELSE {})
  IN [k \in {"format", "safe_mode"} \cup given \cup dims |->
        CASE k = "format" -> Some(a.format)
          [] k = "safe_mode" -> Some(a.safe_mode)
          [] k = "width" -> width
          [] k = "height" -> height
          [] OTHER -> a.opt[k]]

Init ==
  /\ pc = "start"
  /\ api_key \in {None, Some(""), Some("key")}
  /\ fs \in MainFileSystems
  /\ fs0 = fs
  /\ args = None /\ call = Idle /\ ret = None /\ opened = None
  /\ http = <<>> /\ result = None
  /\ exit_code = None /\ stdout = <<>> /\ stderr = <<>>

\* os.getenv("VENICE_API_KEY") and the check that follows
CheckApiKey ==
  /\ pc = "start"
  /\ IF ~TruthyStr(api_key)
     THEN /\ stderr' = Append(stderr, "VENICE_API_KEY environment variable is required")
          /\ Exit(1)
     ELSE /\ pc' = "parse_args"
          /\ UNCHANGED <<stderr, exit_code>>
  /\ UNCHANGED <<api_key, args, fs, fs0, http, result, opened, stdout, call, ret>>

\* parser.parse_args(): a namespace, or a command line argparse rejects
ParseArgs ==
  /\ pc = "parse_args"
  /\ \/ /\ \E a \in ArgSpace : args' = Some(a)
        /\ pc' = "dispatch"
        /\ UNCHANGED <<stderr, exit_code>>
     \/ /\ ParserError("invalid command line")
        /\ UNCHANGED args
  /\ UNCHANGED <<api_key, fs, fs0, http, result, opened, stdout, call, ret>>

\* "if args.list_models: client.list_models(verbose=args.verbose); return"
ListModels ==
  /\ pc = "dispatch"
  /\ args[1].list_models
  /\ http' = Append(http, Get("/models"))
  /\ \/ /\ stdout' = Append(stdout, Line(IF args[1].verbose THEN "models as JSON"
                                                          ELSE "Available models:"))
        /\ Return
        /\ UNCHANGED stderr
     \/ /\ stderr' = Append(stderr, "Error fetching models")
        /\ Exit(1)
        /\ UNCHANGED stdout
  /\ UNCHANGED <<api_key, args, fs, fs0, result, opened, call, ret>>

\* main from "Require prompt" to the print before generate_image: the prompt
\* check, the dimension handling and gen_params
PrepareRequest ==
  /\ pc = "dispatch"
  /\ ~args[1].list_models
  /\ LET a == args[1]
         ar == IF TruthySeq(a.aspect_ratio)
               THEN parse_aspect_ratio(a.aspect_ratio[1])
               ELSE ArOk(0, 0)
         width == IF TruthySeq(a.aspect_ratio) THEN Some(ar.width) ELSE a.width
         height == IF TruthySeq(a.aspect_ratio) THEN Some(ar.height) ELSE a.height
     IN
     IF ~TruthyStr(a.prompt)
     THEN /\ ParserError("Prompt is required for image generation")
          /\ UNCHANGED <<stdout, call>>
     ELSE IF TruthySeq(a.aspect_ratio) /\ (TruthyNum(a.width) \/ TruthyNum(a.height))
     THEN /\ ParserError("Cannot specify both --ar and --width/--height")
          /\ UNCHANGED <<stdout, call>>
     ELSE IF ar.tag = "ValueError"
     THEN /\ ParserError("Invalid aspect ratio")
          /\ UNCHANGED <<stdout, call>>
     ELSE IF ar.tag # "ok"
     THEN /\ Uncaught(ar.tag)
          /\ UNCHANGED <<stdout, call>>
     ELSE /\ call' = [fn |-> "generate_image", prompt |-> a.prompt[1],
                      model |-> a.model, kwargs |-> GenParams(a, width, height)]
          /\ stdout' = Append(stdout, Line("Generating image"))
          /\ pc' = "generate"
          /\ UNCHANGED <<stderr, exit_code>>
  /\ UNCHANGED <<api_key, args, fs, fs0, http, result, opened, ret>>

\* "result = client.generate_image(args.prompt, args.model, **gen_params)"
Generate ==
  /\ pc = "generate"
  /\ GenerateImageCall(call.prompt, call.model, call.kwargs, "extract")
  /\ result' = ret'
  /\ UNCHANGED <<api_key, args, fs, fs0, opened, stdout, call>>

\* result.get("id", "generated_image")
ImageId(body) ==
  IF body.id = None
  THEN <<"g", "e", "n", "e", "r", "a", "t", "e", "d", "_", "i", "m", "a", "g", "e">>
  ELSE body.id[1]

\* "images = result.get('images', [])", the empty check, and the arguments of
\* save_image for images[0]
ExtractImages ==
  /\ pc = "extract"
  /\ IF result[1].images = <<>>
     THEN /\ stderr' = Append(stderr, "No images returned from API")
          /\ Exit(1)
          /\ UNCHANGED call
     ELSE /\ call' = [fn |-> "save_image", base64_data |-> result[1].images[1],
                      output_path |-> args[1].output,
                      image_id |-> ImageId(result[1]),
                      format_ext |-> args[1].format]
          /\ pc' = "save"
          /\ UNCHANGED <<stderr, exit_code>>
  /\ UNCHANGED <<api_key, args, fs, fs0, http, result, opened, stdout, ret>>

\* "filename = client.save_image(base64_data, args.output, image_id, args.format)"
Save ==
  /\ pc = "save"
  /\ SaveImageCall(call.base64_data, call.output_path, call.image_id,
                   call.format_ext, "report")
  /\ UNCHANGED <<api_key, args, fs0, http, result, stdout, call>>

\* the report of the file name and of the timing, then the return of main;
\* a "total" that is no number makes the division raise TypeError
Report ==
  /\ pc = "report"
  /\ LET timing == result[1].timing
         saved == Append(stdout, SavedLine(ret[1]))
     IN
     IF timing = None
     THEN /\ stdout' = saved
          /\ Return
          /\ UNCHANGED stderr
     ELSE IF timing[1].total.type = "number"
     THEN /\ stdout' = Append(saved, Line("Generation completed"))
          /\ Return
          /\ UNCHANGED stderr
     ELSE /\ stdout' = saved
          /\ Uncaught("TypeError")
  /\ UNCHANGED <<api_key, args, fs, fs0, http, result, opened, call, ret>>

Next ==
  \/ CheckApiKey
  \/ ParseArgs
  \/ ListModels
  \/ PrepareRequest
  \/ Generate
  \/ ExtractImages
  \/ Save
  \/ Report

Spec == Init /\ [][Next]_vars

----------------------------------------------------------------------------
(* Properties of the CLI driver (checked under Spec) *)

Exited == pc = "exited"
LastError == stderr[Len(stderr)]

MSG_key == "VENICE_API_KEY environment variable is required"
MSG_conflict == "Cannot specify both --ar and --width/--height"
MSG_prompt == "Prompt is required for image generation"

\* the fatal conditions main reports through parser.error
UsageErrors == {MSG_conflict, MSG_prompt}

\* the fatal conditions main reports and ends with sys.exit(1)
RuntimeErrors ==
  {MSG_key, "Error fetching models", "Error generating image",
   "No images returned from API", "Error saving image"}

\* C2 as stated: an invocation ends with exit code 0 on success and with exit
\* code exactly 1 on every fatal condition (missing key, --ar with
\* --width/--height, missing prompt, HTTP failure, empty images list,
\* decode or write failure).
C2_ExitOneOnEveryFatalCondition ==
  Exited =>
    IF stderr = <<>> THEN exit_code = Some(0)
    ELSE LastError \in UsageErrors \cup RuntimeErrors => exit_code = Some(1)

\* C2 amended: an invocation ends with exit code 0 on success, with exit code
\* 1 on a missing key, an HTTP failure, an empty images list and a decode or
\* write failure, and with exit code 2 when it reports the --ar with
\* --width/--height conflict or the missing prompt; no other code occurs.
C2_ExitCodes ==
  Exited =>
    /\ exit_code \in {Some(0), Some(1), Some(2)}
    /\ exit_code = Some(0) <=> stderr = <<>>
    /\ stderr # <<>> /\ LastError \in RuntimeErrors => exit_code = Some(1)
    /\ stderr # <<>> /\ LastError \in UsageErrors => exit_code = Some(2)

\* "--ar square --width 512" with a prompt has ended with exit code 2
C2_Witness ==
  /\ Exited
  /\ args # None
  /\ args[1].aspect_ratio = Some(T_square) /\ args[1].width = Some(512)
  /\ stderr = <<MSG_conflict>>
  /\ exit_code = Some(2)

\* errors of the configuration: credential, arguments, aspect-ratio token
ConfigurationErrors ==
  {MSG_key, MSG_conflict, MSG_prompt, "Invalid aspect ratio", "invalid command line"}

\* C3: whenever --ar is supplied together with --width or --height (any
\* value, any other flags, --list-models included) no HTTP request is issued
\* and the invocation ends in a configuration error.
C3_ConflictRejectedBeforeAnyRequest ==
  (/\ args # None
   /\ args[1].aspect_ratio # None
   /\ (args[1].width # None \/ args[1].height # None))
  => /\ http = <<>>
     /\ Exited => stderr # <<>> /\ LastError \in ConfigurationErrors

\* C4: an image-generation invocation ends either with exit code 0, exactly
\* one file created and its path reported on standard output, or with a
\* non-zero exit code and no file created or changed.
C4_NoPartialSuccess ==
  (Exited /\ args # None /\ ~args[1].list_models) =>
    \/ /\ exit_code = Some(0)
       /\ \E f \in DOMAIN fs :
            /\ DOMAIN fs = DOMAIN fs0 \cup {f}
            /\ f \notin DOMAIN fs0
            /\ \E i \in 1..Len(stdout) : stdout[i] = SavedLine(f)
       /\ \A p \in DOMAIN fs0 : fs[p] = fs0[p]
    \/ /\ exit_code # Some(0)
       /\ DOMAIN fs = DOMAIN fs0
       /\ \A p \in DOMAIN fs0 : fs[p] = fs0[p]

\* C6: in every payload main sends, width and height are both present or both
\* absent, and when present both are positive.
C6_WidthAndHeightTogetherAndPositive ==
  args # None =>
    \A i \in 1..Len(http) :
      http[i].method = "POST" =>
        LET payload == http[i].json[1] IN
        /\ "width" \in DOMAIN payload <=> "height" \in DOMAIN payload
        /\ "width" \in DOMAIN payload => payload["width"][1] > 0
        /\ "height" \in DOMAIN payload => payload["height"][1] > 0

====
